---- MODULE Spec2Model ----
(***************************************************************************)
(* EcoTracker: the submission-and-approval backend.                        *)
(*                                                                         *)
(* Two deployments are modelled:                                           *)
(*   - src/server.js        the two-tier variant (Location + joining User) *)
(*   - src/unnamed/part_000 the single-tier variant (User with a status)   *)
(*                                                                         *)
(* Strings that the code inspects character by character (file names,      *)
(* MIME types, base64 text) are sequences of one-character strings.        *)
(* An optional field (a JavaScript value that may be undefined) is a       *)
(* sequence of length at most one: <<>> is undefined, <<v>> is v.          *)
(***************************************************************************)
EXTENDS Integers, Sequences, FiniteSets, TLC

(***************************************************************************)
(* Bounds of the model.                                                    *)
(***************************************************************************)
MaxLocs == 2
MaxUsers == 1
MaxTime == 1
MaxApplicants == 2

(***************************************************************************)
(* Generic helpers.                                                        *)
(***************************************************************************)
None == <<>>
Some(v) == <<v>>
IsSet(o) == o # <<>>

\* JavaScript truthiness of a form field (a string or undefined):
\* undefined and "" are falsy.
NoValue == "undefined"
Truthy(s) == s # NoValue /\ s # ""

\* s contains pat as a contiguous substring.
Contains(s, pat) ==
  \E i \in 1..(Len(s) - Len(pat) + 1) : SubSeq(s, i, i + Len(pat) - 1) = pat

\* s starts with pat.
StartsWith(s, pat) ==
  Len(s) >= Len(pat) /\ SubSeq(s, 1, Len(pat)) = pat

UpperCase == <<"A","B","C","D","E","F","G","H","I","J","K","L","M",
               "N","O","P","Q","R","S","T","U","V","W","X","Y","Z">>
LowerCase == <<"a","b","c","d","e","f","g","h","i","j","k","l","m",
               "n","o","p","q","r","s","t","u","v","w","x","y","z">>

\* String.prototype.toLowerCase
ToLowerChar(c) ==
  IF \E i \in 1..26 : UpperCase[i] = c
  THEN LowerCase[CHOOSE i \in 1..26 : UpperCase[i] = c]
  ELSE c
ToLowerCase(s) == [i \in 1..Len(s) |-> ToLowerChar(s[i])]

\* path.extname: from the last "." of the name to its end; "" when there is
\* no "." or the only "." is the first character.
ExtName(name) ==
  LET dots == {i \in 1..Len(name) : name[i] = "."}
      last == CHOOSE i \in dots : \A j \in dots : j <= i
  IN  IF dots = {} THEN <<>>
      ELSE IF last = 1 THEN <<>>
      ELSE SubSeq(name, last, Len(name))

(***************************************************************************)
(* Base64, as Buffer.toString('base64') and Buffer.from(s, 'base64').      *)
(***************************************************************************)
B64Alphabet ==
  <<"A","B","C","D","E","F","G","H","I","J","K","L","M","N","O","P",
    "Q","R","S","T","U","V","W","X","Y","Z","a","b","c","d","e","f",
    "g","h","i","j","k","l","m","n","o","p","q","r","s","t","u","v",
    "w","x","y","z","0","1","2","3","4","5","6","7","8","9","+","/">>

B64Char(n) == B64Alphabet[n + 1]
B64Index(c) == (CHOOSE i \in 1..64 : B64Alphabet[i] = c) - 1

RECURSIVE Base64Encode(_)
Base64Encode(bytes) ==
  IF Len(bytes) = 0 THEN <<>>
  ELSE IF Len(bytes) = 1 THEN
    << B64Char(bytes[1] \div 4), B64Char((bytes[1] % 4) * 16), "=", "=" >>
  ELSE IF Len(bytes) = 2 THEN
    << B64Char(bytes[1] \div 4),
       B64Char((bytes[1] % 4) * 16 + bytes[2] \div 16),
       B64Char((bytes[2] % 16) * 4), "=" >>
  ELSE
    << B64Char(bytes[1] \div 4),
       B64Char((bytes[1] % 4) * 16 + bytes[2] \div 16),
       B64Char((bytes[2] % 16) * 4 + bytes[3] \div 64),
       B64Char(bytes[3] % 64) >>
    \o Base64Encode(SubSeq(bytes, 4, Len(bytes)))

RECURSIVE Base64Decode(_)
Base64Decode(text) ==
  IF Len(text) < 2 \/ text[1] = "=" \/ text[2] = "=" THEN <<>>
  ELSE
    LET a == B64Index(text[1])
        b == B64Index(text[2])
        b1 == a * 4 + b \div 16
    IN  IF Len(text) < 3 \/ text[3] = "=" THEN << b1 >>
        ELSE
          LET c == B64Index(text[3])
              b2 == (b % 16) * 16 + c \div 4
          IN  IF Len(text) < 4 \/ text[4] = "=" THEN << b1, b2 >>
              ELSE
                LET d == B64Index(text[4])
                    b3 == (c % 4) * 64 + d
                IN  << b1, b2, b3 >> \o Base64Decode(SubSeq(text, 5, Len(text)))

(***************************************************************************)
(* Uploaded files.  A file is its original name, its declared MIME type,   *)
(* its size in bytes and its content.  The content of a file longer than   *)
(* a few bytes is represented by its first bytes; an empty file has an     *)
(* empty content.  An upload is an optional file.                          *)
(***************************************************************************)
Str_png == <<"p","n","g">>
Str_jpg == <<"j","p","g">>
Str_jpeg == <<"j","p","e","g">>
Str_gif == <<"g","i","f">>
Str_image == <<"i","m","a","g","e","/">>
Str_text == <<"t","e","x","t","/","p","l","a","i","n">>

\* multer limits.fileSize
fileSize == 5 * 1024 * 1024

File(name, mime, size, bytes) ==
  [originalname |-> name, mimetype |-> mime, size |-> size, buffer |-> bytes]

FilePng == File(<<"a",".">> \o Str_png, Str_image \o Str_png, 1, <<255>>)
FileJpg == File(<<"b",".","J","P","G">>, Str_image \o Str_jpeg, 2, <<77, 0>>)
FileGifAtLimit == File(<<"c",".">> \o Str_gif, Str_image \o Str_gif, fileSize, <<71, 73, 70>>)
FilePngTooLarge == File(<<"d",".">> \o Str_png, Str_image \o Str_png, fileSize + 1, <<137, 80, 78>>)
FileTxt == File(<<"e",".","t","x","t">>, Str_text, 1, <<65>>)
FileTxtRenamed == File(<<"f",".">> \o Str_jpg, Str_text, 1, <<65>>)
FileTxtAsPng == File(<<"g",".","t","x","t">>, Str_image \o Str_png, 1, <<65>>)
FileBmp == File(<<"h",".","b","m","p">>, Str_image \o <<"b","m","p">>, 2, <<66, 77>>)
FileApng == File(<<"i",".","a">> \o Str_png, Str_image \o <<"a">> \o Str_png, 1, <<137>>)
FileEmpty == File(<<"j",".">> \o Str_png, Str_image \o Str_png, 0, <<>>)
FileNoExt == File(Str_png, Str_image \o Str_png, 1, <<255>>)

Files == {FilePng, FileJpg, FileGifAtLimit, FilePngTooLarge, FileTxt,
          FileTxtRenamed, FileTxtAsPng, FileBmp, FileApng, FileEmpty, FileNoExt}

Uploads == {None} \cup {Some(f) : f \in Files}
UserUploads == {None, Some(FilePng), Some(FileTxt), Some(FilePngTooLarge), Some(FileEmpty)}

\* const allowedTypes = /jpeg|jpg|png|gif/;  allowedTypes.test(s)
allowedTypes == {Str_jpeg, Str_jpg, Str_png, Str_gif}
AllowedTypesTest(s) == \E p \in allowedTypes : Contains(s, p)

\* server.js fileFilter: TRUE when the file is passed on.
fileFilter(file) ==
  LET extname == AllowedTypesTest(ToLowerCase(ExtName(file.originalname)))
      mimetype == AllowedTypesTest(file.mimetype)
  IN  mimetype /\ extname

\* upload.single('image') of server.js: what reaches the route.
\*   "none" no file part, "ok" req.file is set,
\*   "filter" the fileFilter's Error, "limit" MulterError LIMIT_FILE_SIZE.
upload(upl) ==
  IF upl = None THEN "none"
  ELSE IF ~fileFilter(upl[1]) THEN "filter"
  ELSE IF upl[1].size > fileSize THEN "limit"
  ELSE "ok"

\* The middleware runs before the route: its outcome for each upload.
Uploaded == [upl \in Uploads |-> upload(upl)]

(***************************************************************************)
(* server.js: the two-tier variant.                                        *)
(***************************************************************************)
VARIABLES
  locations,   \* the Location collection; a document's _id is its index
  users,       \* the User collection of server.js (join records)
  now,         \* the clock read by Date.now and new Date()
  inflight,    \* per concurrent request: the handler suspended at its save()
  resp,        \* the last HTTP response sent
  ingested,    \* history: per Location, the file that submit-location received
  applicants,  \* the User collection of the single-tier variant
  ADMIN_ACCESS_KEY  \* process.env.ADMIN_ACCESS_KEY, NoValue when unset

vars == <<locations, users, now, inflight, resp, ingested, applicants, ADMIN_ACCESS_KEY>>

Workers == {"w1", "w2"}

\* A request's record id: a well-formed ObjectId (which may or may not name
\* a stored document), a string that is no ObjectId, or nothing at all.
Oid(n) == [kind |-> "oid", n |-> n]
MalformedId == [kind |-> "malformed", n |-> 0]
EmptyId == [kind |-> "empty", n |-> 0]
NoId == [kind |-> "none", n |-> 0]
PathIds == {Oid(n) : n \in 1..(MaxLocs + 1)} \cup {MalformedId}
BodyIds == PathIds \cup {EmptyId}

\* The deployments: the admin secret of the environment set, or not set.
AdminAccessKeys == {NoValue, "s3cret"}

\* req.body.key of validate-admin-key: absent, empty, wrong, right.
Keys == {NoValue, "", "guess", "s3cret"}

AdminIds == {NoValue, "", "alice"}
Reasons == {NoValue, "", "duplicate"}

\* The text fields of a submit-location form.
LocationForm(n, d, l) == [name |-> n, description |-> d, link |-> l]
LocationForms ==
  {LocationForm(n, d, l) : n \in {NoValue, "x"}, d \in {NoValue, "x"}, l \in {NoValue, "x"}}
  \cup {LocationForm("", "x", "x")}

\* The text fields of a submit-user form; multipart fields arrive as strings.
UserForm(f, a, e, p, d) == [fullName |-> f, age |-> a, email |-> e, phone |-> p, address |-> d]
UserForms ==
  { UserForm("x", "18", "x", "x", "x"), UserForm("x", "100", "x", "x", "x"),
    UserForm(NoValue, "18", "x", "x", "x"), UserForm("x", "18", "", "x", "x"),
    UserForm("x", "18", "x", NoValue, "x"), UserForm("x", "18", "x", "x", NoValue),
    UserForm("x", NoValue, "x", "x", "x"), UserForm("x", "", "x", "x", "x"),
    UserForm("x", "abc", "x", "x", "x"), UserForm("x", "17", "x", "x", "x"),
    UserForm("x", "101", "x", "x", "x") }

\* The responses: op names the route, code the HTTP status, error the
\* "error" text of the JSON body ("" on success), id the record id of the
\* request (or of the created record), body the payload.
Response(op, code, error, id, body) ==
  [op |-> op, code |-> code, error |-> error, id |-> id, body |-> body]

Idle == [pc |-> "idle", op |-> "", n |-> 0, doc |-> None, modified |-> {}]

\* `data:${mimetype};base64,${imageBase64}`
DataUrl(mimetype, imageBase64) ==
  <<"d","a","t","a",":">> \o mimetype \o <<";","b","a","s","e","6","4",",">> \o imageBase64

NewLocationMutant(form, file) ==
  [ name |-> form.name, description |-> form.description, link |-> form.link,
    status |-> "pending",
    imageData |-> Base64Encode(file.buffer),
    imageMimetype |-> Str_image \o Str_jpeg,
    imageUrl |-> DataUrl(file.mimetype, Base64Encode(file.buffer)),
    submittedAt |-> now,
    processedAt |-> None, processedBy |-> None, rejectionReason |-> None ]

\* new Location({...}): the schema defaults fill status and submittedAt.
NewLocation(form, file) ==
  [ name |-> form.name, description |-> form.description, link |-> form.link,
    status |-> "pending",
    imageData |-> Base64Encode(file.buffer),
    imageMimetype |-> file.mimetype,
    imageUrl |-> DataUrl(file.mimetype, Base64Encode(file.buffer)),
    submittedAt |-> now,
    processedAt |-> None, processedBy |-> None, rejectionReason |-> None ]

\* LocationSchema validation at save(): the required paths.  A required
\* String path fails on undefined and on the empty string.
ValidLocation(doc) ==
  /\ Truthy(doc.name) /\ Truthy(doc.description) /\ Truthy(doc.link)
  /\ doc.imageData # <<>>
  /\ doc.imageMimetype # <<>>
  /\ doc.status \in {"pending", "approved", "rejected"}

Init ==
  /\ locations = <<>>
  /\ users = <<>>
  /\ now = 0
  /\ inflight = [w \in Workers |-> Idle]
  /\ resp = Response("", 0, "", NoId, None)
  /\ ingested = <<>>
  /\ applicants = <<>>
  /\ ADMIN_ACCESS_KEY \in AdminAccessKeys

AllIdle == \A w \in Workers : inflight[w].pc = "idle"

\* Time passes.
Tick ==
  /\ now < MaxTime
  /\ now' = now + 1
  /\ UNCHANGED <<locations, users, inflight, resp, ingested, applicants, ADMIN_ACCESS_KEY>>

\* POST /validate-admin-key: key === adminKey
ValidateAdminKey(key) ==
  LET adminKey == ADMIN_ACCESS_KEY IN
  /\ resp' =
       IF key = adminKey
       THEN Response("validate-admin-key", 200, "", NoId,
              [valid |-> TRUE, message |-> "Access granted"])
       ELSE Response("validate-admin-key", 401, "", NoId,
              [valid |-> FALSE, message |-> "Invalid access key"])
  /\ UNCHANGED <<locations, users, now, inflight, ingested, applicants, ADMIN_ACCESS_KEY>>

InsertOneMutant(collection, doc) == <<doc>> \o collection

\* save() of a new document: an insert; the _id is the next index.
InsertOne(collection, doc) == Append(collection, doc)

\* POST /api/submit-location
SubmitLocation(form, upl) ==
  LET up == Uploaded[upl]
      doc == NewLocation(form, upl[1])
      Reply(code, error) ==
        /\ resp' = Response("submit-location", code, error, NoId, None)
        /\ UNCHANGED <<locations, ingested>>
  IN
  /\ IF up = "limit" THEN Reply(400, "File size too large. Maximum size is 5MB.")
     ELSE IF up = "filter" THEN Reply(400, "Invalid file type")
     ELSE IF ~(Truthy(form.name) /\ Truthy(form.description) /\ Truthy(form.link))
       THEN Reply(400, "Name, description, and link are required")
     ELSE IF up = "none" THEN Reply(400, "Image file is required")
     ELSE IF ~ValidLocation(doc) THEN Reply(500, "Failed to submit location")
     ELSE /\ Len(locations) < MaxLocs
          /\ locations' = InsertOne(locations, doc)
          /\ ingested' = Append(ingested, upl[1])
          /\ resp' = Response("submit-location", 201, "", Oid(Len(locations) + 1), Some(doc))
  /\ UNCHANGED <<users, now, inflight, applicants, ADMIN_ACCESS_KEY>>

\* The _ids of the stored Locations that match a status filter
\* (Location.find({status})); NoValue is the empty filter.
Find(status) ==
  {n \in 1..Len(locations) : status = NoValue \/ locations[n].status = status}

\* .sort({key: -1}): the matching documents in descending order of the key.
\* MongoDB leaves the order of documents with equal keys open.
\* key maps each matching document to its value of the sort path.
SortDesc(S, key) ==
  {p \in [1..Cardinality(S) -> S] :
     /\ \A i, j \in 1..Cardinality(S) : i # j => p[i] # p[j]
     /\ \A i \in 1..(Cardinality(S) - 1) : key[p[i]] >= key[p[i + 1]]}

SubmittedAtKey(n) == locations[n].submittedAt
ProcessedAtKeyMutant(n) == locations[n].submittedAt
ProcessedAtKey(n) == locations[n].processedAt[1]

\* Location.findById(id): "throw" (CastError) for a string that is no
\* ObjectId, "null" when no document has the id, "doc" otherwise.
FindById(id) ==
  IF id.kind # "oid" THEN "throw"
  ELSE IF id.n > Len(locations) THEN "null"
  ELSE "doc"

\* GET /api/admin/pending-locations
ListPending ==
  /\ \E p \in SortDesc(Find("pending"), [n \in Find("pending") |-> SubmittedAtKey(n)]) :
       resp' = Response("pending-locations", 200, "", NoId, p)
  /\ UNCHANGED <<locations, users, now, inflight, ingested, applicants, ADMIN_ACCESS_KEY>>

\* GET /api/locations/approved
ListApproved ==
  /\ \E p \in SortDesc(Find("approved"), [n \in Find("approved") |-> ProcessedAtKey(n)]) :
       resp' = Response("approved-locations", 200, "", NoId, p)
  /\ UNCHANGED <<locations, users, now, inflight, ingested, applicants, ADMIN_ACCESS_KEY>>

\* Math.ceil(total / limit)
CeilDiv(total, limit) == (total + limit - 1) \div limit

\* .limit(limit).skip(skip) of a sorted result
Page(p, skip, limit) ==
  SubSeq(p, skip + 1, IF skip + limit < Len(p) THEN skip + limit ELSE Len(p))

\* Query strings <<status, page, limit>>; page 1 and limit 10 are the defaults.
ListQueries == {<<NoValue, 1, 10>>, <<"pending", 1, 1>>, <<"approved", 2, 1>>, <<"rejected", 1, 10>>}

\* GET /api/admin/locations?status=&page=&limit=
ListLocations(status, page, limit) ==
  /\ \E p \in SortDesc(Find(IF Truthy(status) THEN status ELSE NoValue),
                     [n \in 1..Len(locations) |-> SubmittedAtKey(n)]) :
       resp' = Response("locations", 200, "", NoId,
                 [ data |-> Page(p, (page - 1) * limit, limit),
                   current |-> page,
                   pages |-> CeilDiv(Len(p), limit),
                   total |-> Len(p) ])
  /\ UNCHANGED <<locations, users, now, inflight, ingested, applicants, ADMIN_ACCESS_KEY>>

\* GET /api/location-status/:locationId
LocationStatus(id) ==
  LET found == FindById(id)
      location == locations[id.n]
  IN
  /\ resp' =
       IF found = "throw" THEN Response("location-status", 500, "Failed to fetch request status", id, None)
       ELSE IF found = "null" THEN Response("location-status", 404, "Location not found", id, None)
       ELSE Response("location-status", 200, "", id,
              [ id |-> id.n, status |-> location.status,
                submittedAt |-> location.submittedAt,
                processedAt |-> location.processedAt,
                rejectionReason |-> location.rejectionReason ])
  /\ UNCHANGED <<locations, users, now, inflight, ingested, applicants, ADMIN_ACCESS_KEY>>

\* GET /api/image/:locationId
GetImage(id) ==
  LET found == FindById(id)
      location == locations[id.n]
  IN
  /\ resp' =
       IF found = "throw" THEN Response("image", 500, "Failed to serve image", id, None)
       ELSE IF found = "null" \/ location.imageData = <<>>
         THEN Response("image", 404, "Image not found", id, None)
       ELSE Response("image", 200, "", id,
              [ contentType |-> location.imageMimetype,
                bytes |-> Base64Decode(location.imageData) ])
  /\ UNCHANGED <<locations, users, now, inflight, ingested, applicants, ADMIN_ACCESS_KEY>>

\* The paths that approve and reject assign, which save() then $sets.
ApprovePaths == {"status", "processedAt", "processedBy"}
RejectPaths == {"status", "processedAt", "processedBy", "rejectionReason"}

\* adminId || 'admin'
ProcessedBy(adminId) == IF Truthy(adminId) THEN adminId ELSE "admin"
RejectionReasonMutant(reason) == reason

\* reason || 'No reason provided'
RejectionReason(reason) == IF Truthy(reason) THEN reason ELSE "No reason provided"

\* The handler up to its save(): the document as it is in memory.
ApprovedDoc(location, adminId) ==
  [location EXCEPT !.status = "approved",
                   !.processedAt = Some(now),
                   !.processedBy = Some(ProcessedBy(adminId))]

RejectedDoc(location, adminId, reason) ==
  [location EXCEPT !.status = "rejected",
                   !.processedAt = Some(now),
                   !.processedBy = Some(ProcessedBy(adminId)),
                   !.rejectionReason = Some(RejectionReason(reason))]

\* document.save() of a loaded document: an update that $sets the modified
\* paths of the stored document and leaves its other paths as they are.
SetPaths(stored, doc, modified) ==
  [f \in DOMAIN stored |-> IF f \in modified THEN doc[f] ELSE stored[f]]

IsPendingMutant(location) == location.status # "approved"

\* The guard of both transitions: location.status !== 'pending' is an error.
IsPending(location) == location.status = "pending"

\* POST /api/admin/approve/:locationId, up to the await of save()
ApproveBegin(w, id, adminId) ==
  LET found == FindById(id)
      location == locations[id.n]
      Reply(code, error) ==
        /\ resp' = Response("approve", code, error, id, None)
        /\ UNCHANGED inflight
  IN
  /\ inflight[w].pc = "idle"
  /\ IF found = "throw" THEN Reply(500, "Failed to approve location")
     ELSE IF found = "null" THEN Reply(404, "Location not found")
     ELSE IF ~IsPending(location) THEN Reply(400, "Location has already been processed")
     ELSE /\ inflight' = [inflight EXCEPT ![w] =
                [ pc |-> "save", op |-> "approve", n |-> id.n,
                  doc |-> Some(ApprovedDoc(location, adminId)),
                  modified |-> ApprovePaths ]]
          /\ UNCHANGED resp
  /\ UNCHANGED <<locations, users, now, ingested, applicants, ADMIN_ACCESS_KEY>>

\* POST /api/admin/reject/:locationId, up to the await of save()
RejectBegin(w, id, adminId, reason) ==
  LET found == FindById(id)
      location == locations[id.n]
      Reply(code, error) ==
        /\ resp' = Response("reject", code, error, id, None)
        /\ UNCHANGED inflight
  IN
  /\ inflight[w].pc = "idle"
  /\ IF found = "throw" THEN Reply(500, "Failed to reject location")
     ELSE IF found = "null" THEN Reply(404, "Location not found")
     ELSE IF ~IsPending(location) THEN Reply(400, "Location has already been processed")
     ELSE /\ inflight' = [inflight EXCEPT ![w] =
                [ pc |-> "save", op |-> "reject", n |-> id.n,
                  doc |-> Some(RejectedDoc(location, adminId, reason)),
                  modified |-> RejectPaths ]]
          /\ UNCHANGED resp
  /\ UNCHANGED <<locations, users, now, ingested, applicants, ADMIN_ACCESS_KEY>>

\* The rest of approve and reject: save() writes and the handler answers
\* with the document it holds.
SaveLocation(w) ==
  LET r == inflight[w] IN
  /\ r.pc = "save"
  /\ r.op \in {"approve", "reject"}
  /\ locations' = [locations EXCEPT ![r.n] = SetPaths(@, r.doc[1], r.modified)]
  /\ resp' = Response(r.op, 200, "", Oid(r.n), r.doc)
  /\ inflight' = [inflight EXCEPT ![w] = Idle]
  /\ UNCHANGED <<users, now, ingested, applicants, ADMIN_ACCESS_KEY>>

\* Mongoose's cast of a form string to the Number path age.
NumberOf == ("17" :> 17) @@ ("18" :> 18) @@ ("100" :> 100) @@ ("101" :> 101)
CastAge(s) == IF s \in DOMAIN NumberOf THEN Some(NumberOf[s]) ELSE None
AgeCastError(s) == s \notin DOMAIN NumberOf /\ s # NoValue /\ s # ""

\* UserSchema age: min and max
MinAge == 18
MaxAge == 100

\* new User({...}): joinedAt defaults to Date.now.
NewUser(form, n, file) ==
  [ fullName |-> form.fullName, age |-> CastAge(form.age), email |-> form.email,
    phone |-> form.phone, address |-> form.address, locationId |-> n,
    imageData |-> Base64Encode(file.buffer),
    imageMimetype |-> file.mimetype,
    imageUrl |-> DataUrl(file.mimetype, Base64Encode(file.buffer)),
    joinedAt |-> now ]

\* UserSchema validation at save().
ValidUser(doc, form) ==
  /\ Truthy(doc.fullName) /\ Truthy(doc.email) /\ Truthy(doc.phone) /\ Truthy(doc.address)
  /\ ~AgeCastError(form.age)
  /\ IsSet(doc.age) /\ doc.age[1] >= MinAge /\ doc.age[1] <= MaxAge
  /\ doc.imageData # <<>>
  /\ doc.imageMimetype # <<>>

CanJoinMutant(location) == location.status # "rejected"

\* The guard of a join request: location.status !== 'approved' is an error.
CanJoin(location) == location.status = "approved"

\* The User documents that exist or are about to be written.
UsersInProgress ==
  Len(users) + Cardinality({w \in Workers : inflight[w].pc = "save" /\ inflight[w].op = "submit-user"})

\* POST /api/submit-user, up to the await of save()
SubmitUserBegin(w, form, upl, id) ==
  LET up == Uploaded[upl]
      found == FindById(id)
      location == locations[id.n]
      doc == NewUser(form, id.n, upl[1])
      Reply(code, error) ==
        /\ resp' = Response("submit-user", code, error, id, None)
        /\ UNCHANGED inflight
  IN
  /\ inflight[w].pc = "idle"
  /\ IF up = "limit" THEN Reply(400, "File size too large. Maximum size is 5MB.")
     ELSE IF up = "filter" THEN Reply(400, "Invalid file type")
     ELSE IF up = "none" THEN Reply(400, "Image file is required")
     ELSE IF id.kind = "empty" THEN Reply(400, "Location ID is required")
     ELSE IF found = "throw" THEN Reply(500, "Failed to join location")
     ELSE IF found = "null" THEN Reply(404, "Location not found")
     ELSE IF ~CanJoin(location) THEN Reply(400, "Can only join approved locations")
     ELSE IF ~ValidUser(doc, form) THEN Reply(500, "Failed to join location")
     ELSE /\ UsersInProgress < MaxUsers
          /\ inflight' = [inflight EXCEPT ![w] =
                [ pc |-> "save", op |-> "submit-user", n |-> id.n,
                  doc |-> Some(doc), modified |-> {} ]]
          /\ UNCHANGED resp
  /\ UNCHANGED <<locations, users, now, ingested, applicants, ADMIN_ACCESS_KEY>>

\* The rest of submit-user: save() inserts the User and the handler answers.
SaveUser(w) ==
  LET r == inflight[w] IN
  /\ r.pc = "save"
  /\ r.op = "submit-user"
  /\ users' = InsertOne(users, r.doc[1])
  /\ resp' = Response("submit-user", 201, "", Oid(r.n), r.doc)
  /\ inflight' = [inflight EXCEPT ![w] = Idle]
  /\ UNCHANGED <<locations, now, ingested, applicants, ADMIN_ACCESS_KEY>>

\* The requests of server.js, with their inputs drawn from the sets of D.
\* A request may start while others wait for their save().
Request(D) ==
  \/ \E form \in D.locationForms, upl \in D.uploads : SubmitLocation(form, upl)
  \/ ListPending
  \/ ListApproved
  \/ \E q \in D.queries : ListLocations(q[1], q[2], q[3])
  \/ \E id \in D.pathIds : LocationStatus(id)
  \/ \E id \in D.pathIds : GetImage(id)
  \/ \E w \in D.workers, id \in D.pathIds, adminId \in D.adminIds : ApproveBegin(w, id, adminId)
  \/ \E w \in D.workers, id \in D.pathIds, adminId \in D.adminIds, reason \in D.reasons :
       RejectBegin(w, id, adminId, reason)
  \/ \E w \in D.workers, form \in D.userForms, upl \in D.userUploads, id \in D.bodyIds :
       SubmitUserBegin(w, form, upl, id)

Completion ==
  \/ \E w \in Workers : SaveLocation(w)
  \/ \E w \in Workers : SaveUser(w)

ValidLocationForm == LocationForm("x", "x", "x")
ValidUserForm == UserForm("x", "18", "x", "x", "x")

\* The inputs of the review workflow: every admin input and record id, one
\* accepted and one refused input of each other kind.
ReviewInputs ==
  [ workers |-> {"w1"},
    locationForms |-> {ValidLocationForm, LocationForm(NoValue, "x", "x")},
    uploads |-> {None, Some(FilePng), Some(FileTxt)},
    queries |-> ListQueries,
    pathIds |-> PathIds, bodyIds |-> BodyIds,
    adminIds |-> AdminIds, reasons |-> Reasons,
    userForms |-> {ValidUserForm, UserForm("x", "17", "x", "x", "x")},
    userUploads |-> {None, Some(FilePng)} ]

\* Requests are served one at a time: a request starts when none is waiting.
Next ==
  \/ Tick
  \/ AllIdle /\ Request(ReviewInputs)
  \/ Completion

Spec == Init /\ [][Next]_vars

\* The inputs of image ingestion: every form and every file; the admin
\* inputs and the join requests are one of each kind.
IngestInputs ==
  [ workers |-> {"w1"},
    locationForms |-> LocationForms,
    uploads |-> Uploads,
    queries |-> {<<NoValue, 1, 10>>},
    pathIds |-> PathIds, bodyIds |-> {Oid(1)},
    adminIds |-> {NoValue}, reasons |-> {NoValue},
    userForms |-> {ValidUserForm},
    userUploads |-> UserUploads ]

NextIngest ==
  \/ AllIdle /\ Request(IngestInputs)
  \/ Completion

SpecIngest == Init /\ [][NextIngest]_vars

\* The inputs of join requests: every applicant form, upload and record id;
\* one accepted submission, the default admin inputs.
JoinInputs ==
  [ workers |-> {"w1"},
    locationForms |-> {ValidLocationForm},
    uploads |-> {Some(FilePng)},
    queries |-> {<<NoValue, 1, 10>>},
    pathIds |-> PathIds, bodyIds |-> BodyIds,
    adminIds |-> {NoValue}, reasons |-> {NoValue},
    userForms |-> UserForms,
    userUploads |-> UserUploads ]

NextJoin ==
  \/ AllIdle /\ Request(JoinInputs)
  \/ Completion

SpecJoin == Init /\ [][NextJoin]_vars

\* Requests are served concurrently: a request starts at any time, also
\* while others wait for their save().  The requests of a race arrive
\* within one reading of the clock.
ConcInputs ==
  [ workers |-> Workers,
    locationForms |-> {ValidLocationForm},
    uploads |-> {Some(FilePng)},
    queries |-> {<<NoValue, 1, 10>>},
    pathIds |-> {Oid(n) : n \in 1..MaxLocs}, bodyIds |-> {Oid(n) : n \in 1..MaxLocs},
    adminIds |-> {NoValue, "alice"}, reasons |-> {NoValue},
    userForms |-> {ValidUserForm},
    userUploads |-> {Some(FilePng)} ]

NextConc ==
  \/ Request(ConcInputs)
  \/ Completion

SpecConc == Init /\ [][NextConc]_vars

(***************************************************************************)
(* server.js when the record store cannot be reached: the store call of   *)
(* a handler throws and the handler's catch block answers.                 *)
(***************************************************************************)

\* error.message of the errors that Mongoose and the driver throw when the
\* store cannot be reached, word by word.
StoreErrors ==
  { <<"Server", "selection", "timed", "out", "after", "5000", "ms">>,
    <<"Operation", "locations.insertOne()", "buffering", "timed", "out", "after", "10000ms">>,
    <<"connect", "ECONNREFUSED", "127.0.0.1:27017">> }

\* The words of a message as one string.
RECURSIVE ErrorText(_)
ErrorText(message) ==
  IF Len(message) = 0 THEN ""
  ELSE IF Len(message) = 1 THEN message[1]
  ELSE message[1] \o " " \o ErrorText(Tail(message))

\* error.message.includes('buffering timed out') ||
\* error.message.includes('Server selection timed out')
IsTimeout(message) ==
  \/ Contains(message, <<"buffering", "timed", "out">>)
  \/ Contains(message, <<"Server", "selection", "timed", "out">>)

\* The answer of each route's catch block.
FailureText ==
  [ op \in {"pending-locations", "locations", "approved-locations", "location-status",
            "image", "approve", "reject", "submit-user"} |->
      CASE op = "pending-locations" -> "Failed to fetch pending locations"
        [] op = "locations" -> "Failed to fetch locations"
        [] op = "approved-locations" -> "Failed to fetch approved locations"
        [] op = "location-status" -> "Failed to fetch request status"
        [] op = "image" -> "Failed to serve image"
        [] op = "approve" -> "Failed to approve location"
        [] op = "reject" -> "Failed to reject location"
        [] op = "submit-user" -> "Failed to join location" ]

\* POST /api/submit-location whose newLocation.save() throws: the request
\* has passed the upload, the field checks and the schema validation.
SubmitLocationStoreError(form, upl, message) ==
  /\ Uploaded[upl] = "ok"
  /\ Truthy(form.name) /\ Truthy(form.description) /\ Truthy(form.link)
  /\ ValidLocation(NewLocation(form, upl[1]))
  /\ resp' =
       IF IsTimeout(message)
       THEN Response("submit-location", 503,
              "Database connection timeout. Please try again in a moment.", NoId, None)
       ELSE Response("submit-location", 500,
              "Failed to submit location: " \o ErrorText(message), NoId, None)
  /\ UNCHANGED <<locations, users, now, inflight, ingested, applicants, ADMIN_ACCESS_KEY>>

\* A listing whose Location.find() throws.
FindStoreError(op) ==
  /\ op \in {"pending-locations", "locations", "approved-locations"}
  /\ resp' = Response(op, 500, FailureText[op], NoId, None)
  /\ UNCHANGED <<locations, users, now, inflight, ingested, applicants, ADMIN_ACCESS_KEY>>

\* get-status, get-image, approve or reject whose Location.findById()
\* throws for an id that is an ObjectId.
FindByIdStoreError(op, id) ==
  /\ op \in {"location-status", "image", "approve", "reject"}
  /\ id.kind = "oid"
  /\ resp' = Response(op, 500, FailureText[op], id, None)
  /\ UNCHANGED <<locations, users, now, inflight, ingested, applicants, ADMIN_ACCESS_KEY>>

\* POST /api/submit-user whose Location.findById() throws: the request has
\* passed the upload and carries a locationId.
SubmitUserStoreError(upl, id) ==
  /\ Uploaded[upl] = "ok"
  /\ id.kind = "oid"
  /\ resp' = Response("submit-user", 500, FailureText["submit-user"], id, None)
  /\ UNCHANGED <<locations, users, now, inflight, ingested, applicants, ADMIN_ACCESS_KEY>>

\* approve, reject or submit-user whose save() throws: nothing is written.
SaveStoreError(w) ==
  LET r == inflight[w] IN
  /\ r.pc = "save"
  /\ resp' = Response(r.op, 500, FailureText[r.op], Oid(r.n), None)
  /\ inflight' = [inflight EXCEPT ![w] = Idle]
  /\ UNCHANGED <<locations, users, now, ingested, applicants, ADMIN_ACCESS_KEY>>

\* The requests that meet an unreachable store before their first store call.
RequestStoreError(D) ==
  \/ \E form \in D.locationForms, upl \in D.uploads, message \in StoreErrors :
       SubmitLocationStoreError(form, upl, message)
  \/ \E op \in {"pending-locations", "locations", "approved-locations"} : FindStoreError(op)
  \/ \E op \in {"location-status", "image", "approve", "reject"}, id \in D.pathIds :
       FindByIdStoreError(op, id)
  \/ \E upl \in D.userUploads, id \in D.bodyIds : SubmitUserStoreError(upl, id)

\* The inputs of an outage: one accepted input of each kind.
OutageInputs ==
  [ workers |-> {"w1"},
    locationForms |-> {ValidLocationForm},
    uploads |-> {Some(FilePng)},
    queries |-> {<<NoValue, 1, 10>>},
    pathIds |-> {Oid(n) : n \in 1..MaxLocs}, bodyIds |-> {Oid(n) : n \in 1..MaxLocs},
    adminIds |-> {NoValue}, reasons |-> {NoValue},
    userForms |-> {ValidUserForm},
    userUploads |-> {Some(FilePng)} ]

\* Requests are served one at a time; the store may fail at any store call.
NextOutage ==
  \/ AllIdle /\ Request(OutageInputs)
  \/ AllIdle /\ RequestStoreError(OutageInputs)
  \/ Completion
  \/ \E w \in Workers : SaveStoreError(w)

SpecOutage == Init /\ [][NextOutage]_vars

\* The inputs of the whole interface: an accepted and a refused input of
\* each kind, every record id, every key.
FrameInputs ==
  [ workers |-> Workers,
    locationForms |-> {ValidLocationForm, LocationForm(NoValue, "x", "x")},
    uploads |-> {None, Some(FilePng)},
    queries |-> {<<NoValue, 1, 10>>},
    pathIds |-> PathIds, bodyIds |-> BodyIds,
    adminIds |-> {NoValue}, reasons |-> {NoValue},
    userForms |-> {ValidUserForm, UserForm("x", "17", "x", "x", "x")},
    userUploads |-> {None, Some(FilePng)} ]

\* Every route of server.js, served concurrently.
NextFrame ==
  \/ Request(FrameInputs)
  \/ Completion
  \/ \E key \in Keys : ValidateAdminKey(key)

SpecFrame == Init /\ [][NextFrame]_vars

(***************************************************************************)
(* src/unnamed/part_000: the single-tier variant.  A User is submitted     *)
(* with an image, and approved or rejected by the admin.                   *)
(***************************************************************************)

\* part_000 fileFilter: file.mimetype.startsWith('image/')
fileFilterSingle(file) == StartsWith(file.mimetype, Str_image)

\* upload.single('image') of part_000: what reaches the route.
uploadSingle(upl) ==
  IF upl = None THEN "none"
  ELSE IF ~fileFilterSingle(upl[1]) THEN "filter"
  ELSE IF upl[1].size > fileSize THEN "limit"
  ELSE "ok"

UploadedSingle == [upl \in Uploads |-> uploadSingle(upl)]

\* parseInt(req.body.age): NaN (None) for a string without leading digits.
ParseInt(s) == IF s \in DOMAIN NumberOf THEN Some(NumberOf[s]) ELSE None

\* new User(userData) of part_000: status and submittedAt default; the
\* stored path keeps the extension of the original name.
NewApplicant(form, file) ==
  [ fullName |-> form.fullName, age |-> ParseInt(form.age), email |-> form.email,
    phone |-> form.phone, address |-> form.address,
    imagePath |-> ExtName(file.originalname),
    status |-> "pending", submittedAt |-> now,
    approvedAt |-> None, approvedBy |-> None ]

\* userSchema validation at save(): the required paths; NaN is no Number.
ValidApplicantDoc(doc) ==
  /\ Truthy(doc.fullName) /\ Truthy(doc.email) /\ Truthy(doc.phone) /\ Truthy(doc.address)
  /\ IsSet(doc.age)

SingleForms ==
  { UserForm("x", "18", "x", "x", "x"), UserForm("x", "abc", "x", "x", "x"),
    UserForm(NoValue, "18", "x", "x", "x") }
SingleUploads ==
  { None, Some(FilePng), Some(FileTxt), Some(FilePngTooLarge), Some(FileTxtAsPng),
    Some(FileBmp), Some(FileEmpty) }

UserIds == {Oid(n) : n \in 1..(MaxApplicants + 1)} \cup {MalformedId}

\* POST /submit-user of part_000
SubmitUserSingle(form, upl) ==
  LET up == UploadedSingle[upl]
      doc == NewApplicant(form, upl[1])
      Reply(code, error) ==
        /\ resp' = Response("single/submit-user", code, error, NoId, None)
        /\ UNCHANGED applicants
  IN
  /\ IF up = "limit" THEN Reply(400, "File too large. Maximum size is 5MB.")
     ELSE IF up = "filter" THEN Reply(500, "Internal server error")
     ELSE IF up = "none" THEN Reply(400, "Image is required")
     ELSE IF ~ValidApplicantDoc(doc) THEN Reply(500, "Internal server error")
     ELSE /\ Len(applicants) < MaxApplicants
          /\ applicants' = InsertOne(applicants, doc)
          /\ resp' = Response("single/submit-user", 201, "", Oid(Len(applicants) + 1), Some("pending"))
  /\ UNCHANGED <<locations, users, now, inflight, ingested, ADMIN_ACCESS_KEY>>

\* User.findById(userId) of part_000
FindUserById(id) ==
  IF id.kind # "oid" THEN "throw"
  ELSE IF id.n > Len(applicants) THEN "null"
  ELSE "doc"

\* PUT /users/:userId/approve
ApproveUser(id, approvedBy) ==
  LET found == FindUserById(id)
      user == [applicants[id.n] EXCEPT !.status = "approved",
                                       !.approvedAt = Some(now),
                                       !.approvedBy = Some(ProcessedBy(approvedBy))]
  IN
  /\ IF found = "throw" THEN
       /\ resp' = Response("single/approve", 500, "Internal server error", id, None)
       /\ UNCHANGED applicants
     ELSE IF found = "null" THEN
       /\ resp' = Response("single/approve", 404, "User not found", id, None)
       /\ UNCHANGED applicants
     ELSE
       /\ applicants' = [applicants EXCEPT ![id.n] = user]
       /\ resp' = Response("single/approve", 200, "", id, Some(user))
  /\ UNCHANGED <<locations, users, now, inflight, ingested, ADMIN_ACCESS_KEY>>

\* PUT /users/:userId/reject.  rejectedAt, rejectedBy and rejectionReason
\* are no paths of userSchema: save() stores the status alone.
RejectUser(id) ==
  LET found == FindUserById(id)
      user == [applicants[id.n] EXCEPT !.status = "rejected"]
  IN
  /\ IF found = "throw" THEN
       /\ resp' = Response("single/reject", 500, "Internal server error", id, None)
       /\ UNCHANGED applicants
     ELSE IF found = "null" THEN
       /\ resp' = Response("single/reject", 404, "User not found", id, None)
       /\ UNCHANGED applicants
     ELSE
       /\ applicants' = [applicants EXCEPT ![id.n] = user]
       /\ resp' = Response("single/reject", 200, "", id, Some(user))
  /\ UNCHANGED <<locations, users, now, inflight, ingested, ADMIN_ACCESS_KEY>>

\* GET /users/:userId
GetUser(id) ==
  LET found == FindUserById(id) IN
  /\ resp' =
       IF found = "throw" THEN Response("single/user", 500, "Internal server error", id, None)
       ELSE IF found = "null" THEN Response("single/user", 404, "User not found", id, None)
       ELSE Response("single/user", 200, "", id, Some(applicants[id.n]))
  /\ UNCHANGED <<locations, users, now, inflight, ingested, applicants, ADMIN_ACCESS_KEY>>

ApplicantSubmittedAtKey(n) == applicants[n].submittedAt

\* GET /users/pending
ListPendingUsers ==
  /\ \E p \in SortDesc({n \in 1..Len(applicants) : applicants[n].status = "pending"},
                     [n \in 1..Len(applicants) |-> ApplicantSubmittedAtKey(n)]) :
       resp' = Response("single/pending", 200, "", NoId, p)
  /\ UNCHANGED <<locations, users, now, inflight, ingested, applicants, ADMIN_ACCESS_KEY>>

\* The requests of part_000, all within one reading of the clock.
NextSingle ==
  \/ \E form \in SingleForms, upl \in SingleUploads : SubmitUserSingle(form, upl)
  \/ \E id \in UserIds, approvedBy \in {NoValue, "alice"} : ApproveUser(id, approvedBy)
  \/ \E id \in UserIds : RejectUser(id)
  \/ \E id \in UserIds : GetUser(id)
  \/ ListPendingUsers

SpecSingle == Init /\ [][NextSingle]_vars

(***************************************************************************)
(* Properties.                                                             *)
(***************************************************************************)
TransitionOps == {"approve", "reject"}
Target(op) == IF op = "approve" THEN "approved" ELSE "rejected"
Resolves(id) == id.kind = "oid" /\ id.n \in 1..Len(locations)
Processed(location) == location.status \in {"approved", "rejected"}
SameReview(a, b) ==
  /\ a.status = b.status /\ a.processedAt = b.processedAt
  /\ a.processedBy = b.processedBy /\ a.rejectionReason = b.rejectionReason

\* C1: with requests served one at a time, a transition answered for a
\* pending Location succeeds and moves it to the target status; a transition
\* answered for a Location that is approved or rejected fails with HTTP 400
\* 'already processed' and changes no record; a processed Location keeps its
\* status, processedAt, processedBy and rejectionReason in every step.
C1_TerminalOnce ==
  [][ /\ \A n \in 1..Len(locations) :
           Processed(locations[n]) => SameReview(locations'[n], locations[n])
      /\ (resp' # resp /\ resp'.op \in TransitionOps /\ Resolves(resp'.id)) =>
           IF locations[resp'.id.n].status = "pending"
           THEN /\ resp'.code = 200
                /\ locations'[resp'.id.n].status = Target(resp'.op)
           ELSE /\ resp'.code = 400
                /\ resp'.error = "Location has already been processed"
                /\ locations' = locations ]_vars

\* C1 witness: a reject answered 400 'already processed' for a Location that
\* an earlier approve moved to approved.
C1_Witness ==
  /\ resp.op = "reject" /\ resp.code = 400
  /\ resp.error = "Location has already been processed"
  /\ Resolves(resp.id)
  /\ locations[resp.id.n].status = "approved"

\* A transition request of worker w reaches its save() in this step.
Saves(w) ==
  /\ inflight[w].pc = "save" /\ inflight[w].op \in TransitionOps
  /\ inflight'[w].pc = "idle"

Omitted(s) == s = NoValue

\* A transition request of worker w passes its checks in this step and
\* waits for its save().
Accepted(w, op) ==
  /\ inflight[w].pc = "idle"
  /\ inflight'[w].pc = "save" /\ inflight'[w].op = op

DefaultsTo(given, placeholder) ==
  IF Omitted(given) \/ given = "" THEN placeholder ELSE given

\* C5: a successful transition of a pending Location sets status to the
\* target, processedAt to the time at which the handler ran and processedBy
\* to the supplied actor, or to 'admin' when the actor is omitted; a reject
\* also sets rejectionReason to the supplied reason, or to 'No reason
\* provided' when it is omitted; an approve leaves rejectionReason unset.
\* What the handler holds at its save() is what the store and the response
\* then carry.
C5_TransitionEffect ==
  [][ \A w \in Workers :
        /\ Accepted(w, "approve") =>
             \A adminId \in AdminIds :
               ApproveBegin(w, Oid(inflight'[w].n), adminId) =>
                 /\ locations[inflight'[w].n].status = "pending"
                 /\ inflight'[w].doc[1].status = "approved"
                 /\ inflight'[w].doc[1].processedAt = Some(now)
                 /\ inflight'[w].doc[1].processedBy = Some(DefaultsTo(adminId, "admin"))
                 /\ inflight'[w].doc[1].rejectionReason = None
        /\ Accepted(w, "reject") =>
             \A adminId \in AdminIds, reason \in Reasons :
               RejectBegin(w, Oid(inflight'[w].n), adminId, reason) =>
                 /\ locations[inflight'[w].n].status = "pending"
                 /\ inflight'[w].doc[1].status = "rejected"
                 /\ inflight'[w].doc[1].processedAt = Some(now)
                 /\ inflight'[w].doc[1].processedBy = Some(DefaultsTo(adminId, "admin"))
                 /\ inflight'[w].doc[1].rejectionReason =
                      Some(DefaultsTo(reason, "No reason provided"))
        /\ Saves(w) =>
             /\ SameReview(locations'[inflight[w].n], inflight[w].doc[1])
             /\ resp'.code = 200 /\ resp'.op = inflight[w].op
             /\ resp'.body = inflight[w].doc ]_vars

\* C5 witness: a reject without actor and reason has succeeded; the stored
\* Location carries the two placeholders.
C5_Witness ==
  /\ resp.op = "reject" /\ resp.code = 200
  /\ locations[resp.id.n].status = "rejected"
  /\ locations[resp.id.n].processedBy = Some("admin")
  /\ locations[resp.id.n].rejectionReason = Some("No reason provided")
  /\ IsSet(locations[resp.id.n].processedAt)

IsListing(p, S) ==
  /\ Len(p) = Cardinality(S)
  /\ {p[i] : i \in 1..Len(p)} = S

\* C10: the pending listing holds exactly the pending Locations in
\* descending order of submittedAt, and the public approved listing holds
\* exactly the approved Locations in descending order of processedAt.
C10_Listings ==
  /\ resp.op = "pending-locations" =>
       /\ resp.code = 200
       /\ IsListing(resp.body, {n \in 1..Len(locations) : locations[n].status = "pending"})
       /\ \A i, j \in 1..Len(resp.body) :
            i < j => locations[resp.body[i]].submittedAt >= locations[resp.body[j]].submittedAt
  /\ resp.op = "approved-locations" =>
       /\ resp.code = 200
       /\ IsListing(resp.body, {n \in 1..Len(locations) : locations[n].status = "approved"})
       /\ \A i, j \in 1..Len(resp.body) :
            i < j => locations[resp.body[i]].processedAt[1] >= locations[resp.body[j]].processedAt[1]

\* C10 witness: the approved listing shows two Locations, the one approved
\* later first although it was not submitted later, while another order of
\* approval is on record in the store.
C10_Witness ==
  /\ resp.op = "approved-locations"
  /\ Len(resp.body) = 2
  /\ locations[resp.body[1]].processedAt[1] > locations[resp.body[2]].processedAt[1]
  /\ locations[resp.body[1]].submittedAt <= locations[resp.body[2]].submittedAt

\* C2: every transition that succeeds is applied to a Location that is
\* still pending when its save() writes, so that the status and processedAt
\* of a record are written at most once and at most one of the concurrent
\* requests on a record succeeds.
C2_AtMostOneTransition ==
  [][ \A w \in Workers :
        Saves(w) => locations[inflight[w].n].status = "pending" ]_vars

\* An upload that carries an image: a file that ingestion accepts and that
\* is not empty.
HasImage(upl) == upload(upl) = "ok" /\ upl[1].size > 0
ImageUploads == {upl \in Uploads : HasImage(upl)}
UserImageUploads == {upl \in UserUploads : HasImage(upl)}

\* Applicant fields that are all present, with an age in [18, 100].
ValidApplicant(form) ==
  /\ Truthy(form.fullName) /\ Truthy(form.email)
  /\ Truthy(form.phone) /\ Truthy(form.address)
  /\ form.age \in DOMAIN NumberOf
  /\ NumberOf[form.age] >= 18 /\ NumberOf[form.age] <= 100
ValidApplicants == {form \in UserForms : ValidApplicant(form)}
InvalidApplicants == UserForms \ ValidApplicants

\* A submit-user request is answered in this step, other than by 201.
JoinRefused == resp' # resp /\ resp'.op = "submit-user" /\ resp'.code # 201

\* The submit-user request of worker w reaches its save() in this step.
Joins(w) ==
  /\ inflight[w].pc = "save" /\ inflight[w].op = "submit-user"
  /\ inflight'[w].pc = "idle"

\* C3: a join request with an image for a Location that is pending or
\* rejected fails with HTTP 400 'Can only join approved locations' and
\* creates no User; for an approved Location and valid applicant fields it
\* is accepted, answers 201 and adds exactly one User whose locationId is
\* that Location's id.
C3_JoinNeedsApproved ==
  [][ /\ (JoinRefused /\ Resolves(resp'.id) /\ locations[resp'.id.n].status # "approved") =>
           \/ /\ resp'.code = 400
              /\ resp'.error = "Can only join approved locations"
              /\ users' = users /\ inflight' = inflight
           \/ \A w \in Workers, form \in UserForms, upl \in UserImageUploads :
                ~SubmitUserBegin(w, form, upl, resp'.id)
      /\ (JoinRefused /\ Resolves(resp'.id) /\ locations[resp'.id.n].status = "approved") =>
           \A w \in Workers, form \in ValidApplicants, upl \in UserImageUploads :
             ~SubmitUserBegin(w, form, upl, resp'.id)
      /\ \A w \in Workers :
           /\ Accepted(w, "submit-user") =>
                locations[inflight'[w].n].status = "approved"
           /\ Joins(w) =>
                /\ resp'.code = 201 /\ resp'.id = Oid(inflight[w].n)
                /\ Len(users') = Len(users) + 1
                /\ SubSeq(users', 1, Len(users)) = users
                /\ users'[Len(users')].locationId = inflight[w].n
                /\ locations' = locations ]_vars

\* C3 witness: a User has joined an approved Location, and a join request
\* with an image for a rejected Location has just been refused.
C3_Witness ==
  /\ Len(users) = 1
  /\ locations[users[1].locationId].status = "approved"
  /\ resp.op = "submit-user" /\ resp.code = 400
  /\ resp.error = "Can only join approved locations"
  /\ locations[resp.id.n].status = "rejected"

\* The text fields of a submission that are all present.
PresentFields(form) == Truthy(form.name) /\ Truthy(form.description) /\ Truthy(form.link)
CompleteForms == {form \in LocationForms : PresentFields(form)}

\* C4: a submit-location request with name, description, link and an image
\* adds exactly one Location, pending, with submittedAt set and processedAt,
\* processedBy and rejectionReason unset; a request in which one of them is
\* missing fails with HTTP 400 and leaves the stored records unchanged.
\* Every request is one or the other.
C4_SubmissionCreation ==
  [][ (resp' # resp /\ resp'.op = "submit-location") =>
        \/ /\ resp'.code = 201
           /\ Len(locations') = Len(locations) + 1
           /\ SubSeq(locations', 1, Len(locations)) = locations
           /\ LET loc == locations'[Len(locations')] IN
                /\ PresentFields(loc) /\ loc.imageData # <<>>
                /\ loc.status = "pending" /\ loc.submittedAt = now
                /\ loc.processedAt = None /\ loc.processedBy = None
                /\ loc.rejectionReason = None
        \/ /\ resp'.code = 400
           /\ locations' = locations /\ users' = users
           /\ \A form \in CompleteForms, upl \in ImageUploads : ~SubmitLocation(form, upl) ]_vars

\* The answers of submit-user about its upload.
UploadErrors ==
  { "File size too large. Maximum size is 5MB.", "Invalid file type",
    "Image file is required" }

\* C6: approve, reject, get-status and join-request creation for a record id
\* that resolves to no Location answer 404.  (A join request whose upload
\* is refused or missing is answered for the upload, before the id is read.)
C6_NotFound ==
  ( /\ resp.op \in {"approve", "reject", "location-status", "submit-user"}
    /\ resp.id.kind \in {"oid", "malformed"}
    /\ ~Resolves(resp.id)
    /\ resp.error \notin UploadErrors )
  => resp.code = 404

\* C7: a join request with an image for an approved Location whose
\* applicant fields are invalid fails with HTTP 400 and creates no User.
C7_InvalidApplicantIs400 ==
  [][ /\ (JoinRefused /\ Resolves(resp'.id) /\ locations[resp'.id.n].status = "approved"
            /\ resp'.code # 400) =>
           \A w \in Workers, form \in InvalidApplicants, upl \in UserImageUploads :
             ~SubmitUserBegin(w, form, upl, resp'.id)
      /\ \A w \in Workers :
           Accepted(w, "submit-user") =>
             \A form \in InvalidApplicants, upl \in UserImageUploads :
               ~SubmitUserBegin(w, form, upl, Oid(inflight'[w].n)) ]_vars

\* C9: the image of every stored Location decodes to the bytes of the file
\* that submit-location received, under its MIME type, and get-image for a
\* stored Location answers 200 with exactly those bytes and that type,
\* whatever has happened to the record since.
C9_ImageRoundTrip ==
  /\ Len(ingested) = Len(locations)
  /\ \A n \in 1..Len(locations) :
       /\ Base64Decode(locations[n].imageData) = ingested[n].buffer
       /\ locations[n].imageMimetype = ingested[n].mimetype
  /\ (resp.op = "image" /\ Resolves(resp.id)) =>
       /\ resp.code = 200
       /\ resp.body.bytes = ingested[resp.id.n].buffer
       /\ resp.body.contentType = ingested[resp.id.n].mimetype

\* C9 witness: get-image has returned the two bytes of a JPEG for a Location
\* that was rejected after its submission.
C9_Witness ==
  /\ resp.op = "image" /\ resp.code = 200
  /\ resp.body.bytes = FileJpg.buffer
  /\ resp.body.contentType = FileJpg.mimetype
  /\ locations[resp.id.n].status = "rejected"

\* The files that the specification admits: extension and declared MIME
\* type among jpg, jpeg, png and gif, and at most 5 MiB.
\* The image types that the specification admits: extension and MIME type.
ImageExtensions == {<<".">> \o Str_jpg, <<".">> \o Str_jpeg, <<".">> \o Str_png, <<".">> \o Str_gif}
ImageMimeTypes == {Str_image \o Str_jpg, Str_image \o Str_jpeg, Str_image \o Str_png, Str_image \o Str_gif}
Admissible(file) ==
  /\ ToLowerCase(ExtName(file.originalname)) \in ImageExtensions
  /\ file.mimetype \in ImageMimeTypes
  /\ file.size <= 5 * 1024 * 1024
AdmissibleUploads == {upl \in SingleUploads \ {None} : Admissible(upl[1])}
InadmissibleUploads == {upl \in SingleUploads \ {None} : ~Admissible(upl[1])}

\* C8 (single-tier variant): a submit-user request whose file is not
\* admissible is answered 400 and creates no record; a request with valid
\* fields whose file is admissible and not empty creates one.
C8_IngestionPolicy ==
  [][ (resp' # resp /\ resp'.op = "single/submit-user") =>
        \/ /\ resp'.code = 400 /\ applicants' = applicants
           /\ \A upl \in AdmissibleUploads :
                upl[1].size > 0 => ~SubmitUserSingle(UserForm("x", "18", "x", "x", "x"), upl)
        \/ /\ resp'.code # 400
           /\ \A form \in SingleForms, upl \in InadmissibleUploads :
                ~SubmitUserSingle(form, upl) ]_vars

\* C11: whenever a store call of a public operation fails, the operation
\* answers HTTP 503 and the stored records are as they were.
C11_StoreUnavailableIs503 ==
  [][ (RequestStoreError(OutageInputs) \/ \E w \in Workers : SaveStoreError(w)) =>
        /\ resp'.code = 503
        /\ locations' = locations /\ users' = users ]_vars

\* C12 (single-tier variant): approved and rejected are terminal; no step
\* changes the status of a user that is approved or rejected.
C12_SingleTierTerminal ==
  [][ \A n \in 1..Len(applicants) :
        applicants[n].status \in {"approved", "rejected"} =>
          applicants'[n].status = applicants[n].status ]_vars

\* C13: a Location whose rejectionReason is set has status rejected, also
\* after concurrent approve and reject requests on the same record.
C13_ReasonOnlyOnRejected ==
  \A n \in 1..Len(locations) :
    IsSet(locations[n].rejectionReason) => locations[n].status = "rejected"

\* C14: a stored Location changes only by a successful approve or reject
\* of that record, a stored User never changes, and neither collection
\* loses a record.
C14_Frame ==
  [][ /\ Len(locations') >= Len(locations)
      /\ Len(users') >= Len(users)
      /\ \A n \in 1..Len(locations) :
           locations'[n] # locations[n] =>
             /\ resp'.op \in TransitionOps /\ resp'.code = 200 /\ resp'.id = Oid(n)
             /\ locations'[n].submittedAt = locations[n].submittedAt
      /\ \A n \in 1..Len(users) : users'[n] = users[n] ]_vars

\* C14 witness: a reject has failed on a processed Location while both
\* collections hold records, one Location approved and one rejected.
C14_Witness ==
  /\ resp.op = "reject" /\ resp.code = 400
  /\ Len(locations) = MaxLocs /\ Len(users) = MaxUsers
  /\ \E n, m \in 1..Len(locations) :
       locations[n].status = "approved" /\ locations[m].status = "rejected"

\* C15: every stored User references a stored Location whose status is
\* approved, also when join requests race with approve and reject.
C15_UsersReferenceApproved ==
  \A u \in 1..Len(users) :
    /\ users[u].locationId \in 1..Len(locations)
    /\ locations[users[u].locationId].status = "approved"

\* C16: validate-admin-key answers valid = true exactly when a secret is
\* configured and the supplied key equals it, and otherwise valid = false
\* with HTTP 401.
C16_KeyCheck ==
  [][ \A key \in Keys :
        ValidateAdminKey(key) =>
          IF ADMIN_ACCESS_KEY # NoValue /\ key = ADMIN_ACCESS_KEY
          THEN resp'.code = 200 /\ resp'.body.valid
          ELSE resp'.code = 401 /\ ~resp'.body.valid ]_vars

====
